---- MODULE Spec2Model ----
(***************************************************************************)
(* PartialAsyncWrite (src/src/async_write.rs): an AsyncWrite wrapper that  *)
(* breaks writes up according to a sequence of PartialOps.                 *)
(*                                                                         *)
(* The wrapper is the pair (inner, ops).  The inner stream W is a generic  *)
(* parameter of the source; it is modelled as a bounded sink that accepts  *)
(* as many bytes as it has room for, that fails once it was shut down, and *)
(* that can also be read (duplex).                                         *)
(* All calls are made from inside a task, as task::park() requires.        *)
(***************************************************************************)
EXTENDS Integers, Sequences, FiniteSets, TLC

\* ------------------------------------------------------------------ bounds
MaxOps == 2        \* longest op sequence handed to new
MaxSetOps == 1     \* longest op sequence handed to set_ops
MaxLimit == 2      \* largest n of a Limited(n)
MaxBuf == 2        \* longest buffer a caller passes to write
InnerCap == 2      \* bytes the inner stream has room for
MaxData == 4       \* longest data a write_all task writes

\* write/flush calls made on one installed sequence: all of it and one more
MaxCalls == MaxOps + 1

\* ------------------------------------------------------------- data types
\* io::ErrorKind, two representatives: the one the wrapper treats specially
\* and one it does not.
ErrorKinds == {"WouldBlock", "BrokenPipe"}

NoKind == "-"
NoMsg == "-"

\* PartialOp (crate::PartialOp), and None for an exhausted iterator.
Unlimited == [tag |-> "Unlimited", n |-> 0, kind |-> NoKind]
Limited(n) == [tag |-> "Limited", n |-> n, kind |-> NoKind]
Err(kind) == [tag |-> "Err", n |-> 0, kind |-> kind]
None == [tag |-> "None", n |-> 0, kind |-> NoKind]

PartialOps == {Unlimited} \cup {Limited(n) : n \in 0..MaxLimit}
                          \cup {Err(k) : k \in ErrorKinds}

SeqsUpTo(S, n) == UNION {[1..k -> S] : k \in 0..n}
OpSeqs == SeqsUpTo(PartialOps, MaxOps)
SetOpSeqs == SeqsUpTo(PartialOps, MaxSetOps)

\* io::Result values.  Ok(n) carries a byte count (0 for the unit results of
\* flush and shutdown); an error carries its kind and its message.
Ok(n) == [ok |-> TRUE, n |-> n, kind |-> NoKind, msg |-> NoMsg]
IoError(kind, msg) == [ok |-> FALSE, n |-> 0, kind |-> kind, msg |-> msg]

WriteMsg == "error during write, generated by partial-io"
FlushMsg == "error during flush, generated by partial-io"
InnerMsg == "error raised by the inner stream"

Min(a, b) == IF a <= b THEN a ELSE b
Prefix(s, n) == SubSeq(s, 1, n)
Drop(s, n) == SubSeq(s, n + 1, Len(s))

\* The buffers a caller writes: the prefixes of 1,2,3,...
Bytes(n) == [i \in 1..n |-> i]
Bufs == {Bytes(n) : n \in 0..MaxBuf}

\* ------------------------------------------------------- the inner stream
\* W, the generic parameter: a non-blocking duplex stream whose write side is
\* a sink with room for cap bytes.  data: the bytes written; dirty: written
\* and not yet flushed; shut: shutdown was called.  A write accepts what
\* there is room for and would block when there is none; writing to,
\* flushing or shutting down a stream that was shut down is a broken pipe.
\* Its read side yields the bytes 1,2,3,... into any buffer it is given.
NewInner(cap) == [data |-> <<>>, cap |-> cap, dirty |-> FALSE, shut |-> FALSE]

InnerWrite(s, buf) ==
    LET k == Min(Len(buf), s.cap - Len(s.data))
    IN  IF s.shut
        THEN [st |-> s, res |-> IoError("BrokenPipe", InnerMsg)]
        ELSE IF k = 0 /\ buf # <<>>
        THEN [st |-> s, res |-> IoError("WouldBlock", InnerMsg)]
        ELSE [st |-> [s EXCEPT !.data = s.data \o Prefix(buf, k),
                               !.dirty = (s.dirty \/ k > 0)],
              res |-> Ok(k)]

InnerFlush(s) ==
    IF s.shut
    THEN [st |-> s, res |-> IoError("BrokenPipe", InnerMsg)]
    ELSE [st |-> [s EXCEPT !.dirty = FALSE], res |-> Ok(0)]

InnerShutdown(s) ==
    IF s.shut
    THEN [st |-> s, res |-> IoError("BrokenPipe", InnerMsg)]
    ELSE [st |-> [s EXCEPT !.shut = TRUE, !.dirty = FALSE], res |-> Ok(0)]

InnerRead(s, len) == [st |-> s, res |-> Ok(len)]

\* One call made on the inner stream, as the wrapper's caller can observe it.
ICall(name, arg) == [name |-> name, arg |-> arg]

\* --------------------------------------------------------- the op iterator
\* ops: Box<dyn Iterator<Item = PartialOp>>, an iterator over the installed
\* sequence: the items and the number of them already yielded.
make_ops(iter) == [items |-> iter, pos |-> 0]

\* An iterator that starts over once it has yielded its last item.
IterNext_Cycle(it) ==
    IF it.pos < Len(it.items)
    THEN [op |-> it.items[it.pos + 1], it |-> [it EXCEPT !.pos = it.pos + 1]]
    ELSE IF Len(it.items) > 0
    THEN [op |-> it.items[1], it |-> [it EXCEPT !.pos = 1]]
    ELSE [op |-> None, it |-> it]

\* self.ops.next(): the next item, or None (and no move) when exhausted.
IterNext(it) ==
    IF it.pos < Len(it.items)
    THEN [op |-> it.items[it.pos + 1], it |-> [it EXCEPT !.pos = it.pos + 1]]
    ELSE [op |-> None, it |-> it]

\* The items the iterator has yet to yield.
Remaining(it) == Drop(it.items, it.pos)

\* ------------------------------------------------------------ the wrapper
\* Each method is an operator from self = (inner, ops) to the new self, the
\* returned value, the calls made on the inner stream and the number of
\* task::park().unpark() requests.
Outcome(s, it, op, ret, icalls, wakes) ==
    [inner |-> s, ops |-> it, op |-> op, ret |-> ret, icalls |-> icalls,
     wakes |-> wakes]

new(w, iter) == [inner |-> w, ops |-> make_ops(iter)]

\* set_ops that keeps what was left of the prior sequence in front.
set_ops_Extend(s, it, iter) ==
    Outcome(s, make_ops(Remaining(it) \o iter), None, Ok(0), <<>>, 0)

set_ops(s, it, iter) == Outcome(s, make_ops(iter), None, Ok(0), <<>>, 0)

\* A get_mut that takes an op, as an intercepted call does.
get_mut_Pops(s, it) == Outcome(s, IterNext(it).it, None, Ok(0), <<>>, 0)

get_mut(s, it) == Outcome(s, it, None, Ok(0), <<>>, 0)

into_inner(s, it) == Outcome(s, it, None, Ok(0), <<>>, 0)

\* The arms of write's match; nx is what self.ops.next() gave.
\* Limited that forwards the whole buffer.
WriteLimited_NoCap(s, nx, buf) ==
    LET r == InnerWrite(s, buf)
    IN  Outcome(r.st, nx.it, nx.op, r.res, <<ICall("write", buf)>>, 0)

\* Limited that forwards the last len bytes of the buffer.
WriteLimited_Suffix(s, nx, buf) ==
    LET len == Min(nx.op.n, Len(buf))
        r == InnerWrite(s, Drop(buf, Len(buf) - len))
    IN  Outcome(r.st, nx.it, nx.op, r.res,
                <<ICall("write", Drop(buf, Len(buf) - len))>>, 0)

\* Limited that skips the inner write when there is nothing to forward.
WriteLimited_SkipEmpty(s, nx, buf) ==
    LET len == Min(nx.op.n, Len(buf))
        r == InnerWrite(s, Prefix(buf, len))
    IN  IF len = 0
        THEN Outcome(s, nx.it, nx.op, Ok(0), <<>>, 0)
        ELSE Outcome(r.st, nx.it, nx.op, r.res,
                     <<ICall("write", Prefix(buf, len))>>, 0)

\* Limited that reports an error of the inner stream as one of its own.
WriteLimited_Rewrap(s, nx, buf) ==
    LET len == Min(nx.op.n, Len(buf))
        r == InnerWrite(s, Prefix(buf, len))
    IN  Outcome(r.st, nx.it, nx.op,
                IF r.res.ok THEN r.res ELSE IoError(r.res.kind, WriteMsg),
                <<ICall("write", Prefix(buf, len))>>,
                IF ~r.res.ok /\ r.res.kind = "WouldBlock" THEN 1 ELSE 0)

WriteLimited(s, nx, buf) ==
    LET len == Min(nx.op.n, Len(buf))
        r == InnerWrite(s, Prefix(buf, len))
    IN  Outcome(r.st, nx.it, nx.op, r.res, <<ICall("write", Prefix(buf, len))>>, 0)

\* Err that writes before it fails.
WriteErr_CallsInner(s, nx, buf) ==
    LET r == InnerWrite(s, buf)
    IN  Outcome(r.st, nx.it, nx.op, IoError(nx.op.kind, WriteMsg),
                <<ICall("write", buf)>>,
                IF nx.op.kind = "WouldBlock" THEN 1 ELSE 0)

\* Err that does not unpark the task, as the synchronous wrapper's.
WriteErr_NoWake(s, nx, buf) ==
    Outcome(s, nx.it, nx.op, IoError(nx.op.kind, WriteMsg), <<>>, 0)

\* Err that unparks the task whatever the kind.
WriteErr_WakeAlways(s, nx, buf) ==
    Outcome(s, nx.it, nx.op, IoError(nx.op.kind, WriteMsg), <<>>, 1)

WriteErr(s, nx, buf) ==
    Outcome(s, nx.it, nx.op, IoError(nx.op.kind, WriteMsg), <<>>,
            IF nx.op.kind = "WouldBlock" THEN 1 ELSE 0)

\* Pass-through that holds the last byte back.
WritePassThrough_Short(s, nx, buf) ==
    LET part == Prefix(buf, IF Len(buf) > 1 THEN Len(buf) - 1 ELSE Len(buf))
        r == InnerWrite(s, part)
    IN  Outcome(r.st, nx.it, nx.op, r.res, <<ICall("write", part)>>, 0)

WritePassThrough(s, nx, buf) ==
    LET r == InnerWrite(s, buf)
    IN  Outcome(r.st, nx.it, nx.op, r.res, <<ICall("write", buf)>>, 0)

write(s, it, buf) ==
    LET nx == IterNext(it)
    IN  CASE nx.op.tag = "Limited" -> WriteLimited(s, nx, buf)
          [] nx.op.tag = "Err" -> WriteErr(s, nx, buf)
          [] OTHER -> WritePassThrough(s, nx, buf)

\* The arms of flush's match.
\* Err that does not unpark the task, as the synchronous wrapper's.
FlushErr_NoWake(s, nx) ==
    Outcome(s, nx.it, nx.op, IoError(nx.op.kind, FlushMsg), <<>>, 0)

\* Err that carries write's message.
FlushErr_WriteMsg(s, nx) ==
    Outcome(s, nx.it, nx.op, IoError(nx.op.kind, WriteMsg), <<>>,
            IF nx.op.kind = "WouldBlock" THEN 1 ELSE 0)

FlushErr(s, nx) ==
    Outcome(s, nx.it, nx.op, IoError(nx.op.kind, FlushMsg), <<>>,
            IF nx.op.kind = "WouldBlock" THEN 1 ELSE 0)

\* A flush that takes Limited(0) as "flush nothing".
FlushPassThrough_SkipZero(s, nx) ==
    IF nx.op = Limited(0)
    THEN Outcome(s, nx.it, nx.op, Ok(0), <<>>, 0)
    ELSE LET r == InnerFlush(s)
         IN  Outcome(r.st, nx.it, nx.op, r.res, <<ICall("flush", <<>>)>>, 0)

FlushPassThrough(s, nx) ==
    LET r == InnerFlush(s)
    IN  Outcome(r.st, nx.it, nx.op, r.res, <<ICall("flush", <<>>)>>, 0)

\* A flush that leaves a Limited in the sequence for the next write.
flush_PeekLimited(s, it) ==
    LET nx == IterNext(it)
    IN  IF nx.op.tag = "Err" THEN FlushErr(s, nx)
        ELSE IF nx.op.tag = "Limited"
        THEN FlushPassThrough(s, [op |-> nx.op, it |-> it])
        ELSE FlushPassThrough(s, nx)

flush(s, it) ==
    LET nx == IterNext(it)
    IN  IF nx.op.tag = "Err" THEN FlushErr(s, nx) ELSE FlushPassThrough(s, nx)

\* A shutdown that is subject to the sequence, as flush is.
shutdown_Gated(s, it) ==
    LET nx == IterNext(it)
        r == InnerShutdown(s)
    IN  IF nx.op.tag = "Err"
        THEN Outcome(s, nx.it, nx.op, IoError(nx.op.kind, FlushMsg), <<>>, 0)
        ELSE Outcome(r.st, nx.it, nx.op, r.res, <<ICall("shutdown", <<>>)>>, 0)

shutdown(s, it) ==
    LET r == InnerShutdown(s)
    IN  Outcome(r.st, it, None, r.res, <<ICall("shutdown", <<>>)>>, 0)

\* A read that is subject to the sequence, as write is.
read_Gated(s, it, len) ==
    LET nx == IterNext(it)
        n == IF nx.op.tag = "Limited" THEN Min(nx.op.n, len) ELSE len
        r == InnerRead(s, n)
    IN  IF nx.op.tag = "Err"
        THEN Outcome(s, nx.it, nx.op, IoError(nx.op.kind, WriteMsg), <<>>, 0)
        ELSE Outcome(r.st, nx.it, nx.op, r.res, <<ICall("read", Bytes(n))>>, 0)

read(s, it, len) ==
    LET r == InnerRead(s, len)
    IN  Outcome(r.st, it, None, r.res, <<ICall("read", Bytes(len))>>, 0)

\* ------------------------------------------------------------------- state
VARIABLES
    inner,      \* self.inner
    ops,        \* self.ops
    owner,      \* "wrapper" until into_inner moves the stream to the "caller"
    notified,   \* the current task has been unparked since its last poll
    last,       \* the latest call: its arguments, governing op and outcome
    installed,  \* the sequence the caller handed to new or to the last set_ops
    calls,      \* write/flush calls since new or the last set_ops
    direct,     \* a copy of the inner stream as of new / set_ops, on which
                \* every later call is made directly, with no wrapper; kept
                \* while the installed sequence holds only Unlimited
    data,       \* write_all: the bytes to write
    pos,        \* write_all: how many of them have been written
    tstate      \* the task: "running", "parked", "done" or "failed"

vars == <<inner, ops, owner, notified, last, installed, calls, direct, data,
          pos, tstate>>
taskVars == <<data, pos, tstate>>

AllUnlimited(items) == \A i \in 1..Len(items) : items[i] = Unlimited

\* No reference is kept: the installed sequence holds another op.
Untracked == [on |-> FALSE, data |-> <<>>, cap |-> 0, dirty |-> FALSE, shut |-> FALSE]
Tracked(s) == [on |-> TRUE, data |-> s.data, cap |-> s.cap, dirty |-> s.dirty,
               shut |-> s.shut]
Stream(d) == [data |-> d.data, cap |-> d.cap, dirty |-> d.dirty, shut |-> d.shut]
Reference(s, iter) == IF AllUnlimited(iter) THEN Tracked(s) ELSE Untracked

\* The same call made on the reference stream.
OnRef(d) ==
    IF direct.on THEN [st |-> Tracked(d.st), res |-> d.res]
                 ELSE [st |-> Untracked, res |-> Ok(0)]
SameRef == [st |-> direct, res |-> Ok(0)]

\* discarded: the ops a set_ops call found unconsumed and dropped.
CallRecord(name, buf, o, dret, discarded) ==
    [call |-> name, buf |-> buf, op |-> o.op, ret |-> o.ret,
     icalls |-> o.icalls, wakes |-> o.wakes, dret |-> dret,
     discarded |-> discarded]

NoCall(name) ==
    [call |-> name, buf |-> <<>>, op |-> None, ret |-> Ok(0), icalls |-> <<>>,
     wakes |-> 0, dret |-> Ok(0), discarded |-> 0]

\* The effect of one method call on the wrapper, the task and the reference.
Effect(name, buf, o, d) ==
    /\ inner' = o.inner
    /\ ops' = o.ops
    /\ notified' = (notified \/ o.wakes > 0)
    /\ last' = CallRecord(name, buf, o, d.res,
                          IF name = "set_ops" THEN Len(ops.items) - ops.pos ELSE 0)
    /\ direct' = d.st

\* PartialAsyncWrite::new(inner, iter), called by the task on its first poll.
InitWrapper(cap) ==
    /\ installed \in OpSeqs
    /\ LET self == new(NewInner(cap), installed)
       IN  inner = self.inner /\ ops = self.ops
    /\ owner = "wrapper"
    /\ notified = FALSE
    /\ last = NoCall("new")
    /\ calls = 0
    /\ direct = Reference(inner, installed)

Init ==
    /\ InitWrapper(InnerCap)
    /\ data = <<>>
    /\ pos = 0
    /\ tstate = "running"

\* ----------------------------------------------------------------- actions
DoWrite(buf) ==
    /\ owner = "wrapper"
    /\ tstate = "running"
    /\ Effect("write", buf, write(inner, ops, buf),
              OnRef(InnerWrite(Stream(direct), buf)))
    /\ calls' = calls + 1
    /\ UNCHANGED <<owner, installed>>

CallWrite ==
    /\ calls < MaxCalls
    /\ \E buf \in Bufs : DoWrite(buf)
    /\ UNCHANGED taskVars

CallFlush ==
    /\ calls < MaxCalls
    /\ owner = "wrapper"
    /\ Effect("flush", <<>>, flush(inner, ops), OnRef(InnerFlush(Stream(direct))))
    /\ calls' = calls + 1
    /\ UNCHANGED <<owner, installed, taskVars>>

CallShutdown ==
    /\ owner = "wrapper"
    /\ Effect("shutdown", <<>>, shutdown(inner, ops),
              OnRef(InnerShutdown(Stream(direct))))
    /\ UNCHANGED <<owner, installed, calls, taskVars>>

CallRead ==
    /\ owner = "wrapper"
    /\ \E len \in 1..MaxBuf :
          Effect("read", Bytes(len), read(inner, ops, len),
                 OnRef(InnerRead(Stream(direct), len)))
    /\ UNCHANGED <<owner, installed, calls, taskVars>>

CallSetOps ==
    /\ owner = "wrapper"
    /\ \E iter \in SetOpSeqs :
          LET o == set_ops(inner, ops, iter)
          IN  /\ Effect("set_ops", <<>>, o,
                        [st |-> Reference(o.inner, iter), res |-> Ok(0)])
              /\ installed' = iter
    /\ calls' = 0
    /\ UNCHANGED <<owner, taskVars>>

CallGetMut ==
    /\ owner = "wrapper"
    /\ Effect("get_mut", <<>>, get_mut(inner, ops), SameRef)
    /\ UNCHANGED <<owner, installed, calls, taskVars>>

IntoInner ==
    /\ owner = "wrapper"
    /\ Effect("into_inner", <<>>, into_inner(inner, ops), SameRef)
    /\ owner' = "caller"
    /\ UNCHANGED <<installed, calls>>

CallIntoInner == IntoInner /\ UNCHANGED taskVars

\* The executor polls the task again once it has been unparked.
Poll ==
    /\ notified
    /\ notified' = FALSE
    /\ tstate' = IF tstate = "parked" THEN "running" ELSE tstate
    /\ last' = NoCall("poll")
    /\ UNCHANGED <<inner, ops, owner, installed, calls, direct, data, pos>>

Next ==
    \/ CallWrite
    \/ CallFlush
    \/ CallShutdown
    \/ CallRead
    \/ CallSetOps
    \/ CallGetMut
    \/ CallIntoInner
    \/ Poll

Spec == Init /\ [][Next]_vars

\* ------------------------------------------------- the write_all scenario
\* The doc example: a task runs write_all(partial_writer, in_data) over a
\* sink with room for all of in_data, then takes the sink back.  write_all
\* writes the rest of the data until none is left; a would-block error ends
\* the poll with the task parked, any other error and a write of zero bytes
\* fail the future.
ExampleOps == <<Err("WouldBlock"), Limited(2)>>
ExampleData == <<1, 2, 3, 4>>

Datas == {Bytes(n) : n \in 1..MaxData}

InitWriteAll ==
    /\ data \in Datas
    /\ InitWrapper(Len(data))
    /\ pos = 0
    /\ tstate = "running"

WriteAllAfter(p, len, r) ==
    IF ~r.ok
    THEN [pos |-> p, tstate |-> IF r.kind = "WouldBlock" THEN "parked" ELSE "failed"]
    ELSE IF r.n = 0
    THEN [pos |-> p, tstate |-> "failed"]
    ELSE [pos |-> p + r.n, tstate |-> IF p + r.n < len THEN "running" ELSE "done"]

WriteAllStep ==
    /\ pos < Len(data)
    /\ DoWrite(Drop(data, pos))
    /\ LET after == WriteAllAfter(pos, Len(data), write(inner, ops, Drop(data, pos)).ret)
       IN  pos' = after.pos /\ tstate' = after.tstate
    /\ UNCHANGED data

WriteAllDone ==
    /\ tstate = "done"
    /\ IntoInner
    /\ UNCHANGED taskVars

NextWriteAll ==
    \/ WriteAllStep
    \/ WriteAllDone
    \/ Poll

SpecWriteAll == InitWriteAll /\ [][NextWriteAll]_vars

\* The executor (core.run) polls the task again whenever it was unparked,
\* and a task that is being polled goes on with its loop.
FairWriteAll ==
    /\ SpecWriteAll
    /\ WF_vars(Poll)
    /\ WF_vars(WriteAllStep)

\* ------------------------------------------------------------- properties
\* The op the installed sequence assigns to the next write or flush call:
\* its (calls + 1)-th element, or None when it has no such element.
Governor == IF calls < Len(installed) THEN installed[calls + 1] ELSE None

Exhausted == calls >= Len(installed)

Intercepted(l) == l.call \in {"write", "flush"}

\* The outcome of a call forwarded to the inner stream: its result is
\* returned, its state is the wrapper's inner stream, it is the only call.
Forwarded(r, name, arg) ==
    /\ inner' = r.st
    /\ last'.ret = r.res
    /\ last'.icalls = <<ICall(name, arg)>>

\* C1: a write or flush call governed by Err(kind) makes no call on the
\* inner stream and leaves it as it was, returns an error of that kind, and
\* consumes exactly one op.
C1_ErrOpFabricates ==
    [][(Intercepted(last') /\ Governor.tag = "Err") =>
          /\ inner' = inner
          /\ last'.icalls = <<>>
          /\ ~last'.ret.ok
          /\ last'.ret.kind = Governor.kind
          /\ Remaining(ops') = Drop(Remaining(ops), 1)
          /\ Len(Remaining(ops)) >= 1]_vars

C1_Witness ==
    /\ last.call = "write"
    /\ last.op = Err("BrokenPipe")
    /\ last.buf = Bytes(2)
    /\ last.ret = IoError("BrokenPipe", WriteMsg)
    /\ inner.data = <<1>>

\* C2: a write of a buffer of length L governed by Limited(n) makes exactly
\* one write call on the inner stream, with the first min(n, L) bytes of the
\* buffer, and returns what the inner stream returned for it.
C2_LimitedTruncates ==
    [][(last'.call = "write" /\ Governor.tag = "Limited") =>
          LET slice == Prefix(last'.buf, Min(Governor.n, Len(last'.buf)))
          IN  Forwarded(InnerWrite(inner, slice), "write", slice)]_vars

C2_Witness ==
    /\ last.call = "write"
    /\ last.op = Limited(1)
    /\ last.buf = Bytes(2)
    /\ last.icalls = <<ICall("write", <<1>>)>>
    /\ last.ret = Ok(1)
    /\ inner.data = <<1, 1>>

\* C3: while the installed sequence holds only Unlimited, the inner stream
\* is in the state of a stream on which the same calls were made directly,
\* and each write and flush returned what the direct call returned.
C3_UnlimitedTransparent ==
    AllUnlimited(installed) =>
        /\ direct.on
        /\ Stream(direct) = inner
        /\ Intercepted(last) =>
              /\ last.ret = last.dret
              /\ last.icalls = <<ICall(last.call, last.buf)>>

C3_Witness ==
    /\ installed = <<Unlimited, Unlimited>>
    /\ calls = 2
    /\ last.call = "write"
    /\ last.op = Unlimited
    /\ last.buf = Bytes(2)
    /\ last.ret = Ok(1)
    /\ inner.data = <<1, 1>>

\* C4: once the sequence is exhausted, and until set_ops is called, it stays
\* exhausted and every write and flush call is forwarded whole to the inner
\* stream, with no fabricated error and no wake request.
C4_ExhaustedIsUnlimited ==
    [][(Exhausted /\ last'.call # "set_ops") =>
          /\ Exhausted'
          /\ Remaining(ops') = <<>>
          /\ last'.wakes = 0
          /\ last'.call = "write" =>
                Forwarded(InnerWrite(inner, last'.buf), "write", last'.buf)
          /\ last'.call = "flush" =>
                Forwarded(InnerFlush(inner), "flush", <<>>)]_vars

C4_Witness ==
    /\ installed = <<Limited(0)>>
    /\ calls = 3
    /\ last.call = "write"
    /\ last.op = None
    /\ last.buf = Bytes(2)
    /\ last.ret = Ok(2)

\* C5: the k-th write or flush call since new or set_ops is governed by the
\* k-th element of the installed sequence, or by exhaustion when there is no
\* such element, and the iterator has yielded exactly one element per call
\* while it had any.
C5_OneOpPerCall ==
    /\ Remaining(ops) = Drop(installed, Min(calls, Len(installed)))
    /\ Intercepted(last) =>
          /\ calls >= 1
          /\ last.op = IF calls <= Len(installed) THEN installed[calls] ELSE None

C5_Witness ==
    /\ installed = <<Err("WouldBlock"), Limited(1)>>
    /\ calls = 2
    /\ last.call = "flush"
    /\ last.op = Limited(1)
    /\ Remaining(ops) = <<>>

\* C6: set_ops(s) makes no call on the inner stream and leaves it as it
\* was; what the iterator then has left to yield is s and nothing of the
\* prior sequence, and the first write or flush call after it is governed by
\* the first element of s, or by exhaustion when s is empty.
C6_SetOpsReplaces ==
    [][/\ last'.call = "set_ops" =>
             /\ inner' = inner
             /\ last'.icalls = <<>>
             /\ Remaining(ops') = installed'
       /\ (calls = 0 /\ Intercepted(last')) =>
             last'.op = IF installed = <<>> THEN None ELSE installed[1]]_vars

C6_Witness ==
    /\ last.call = "set_ops"
    /\ last.discarded = 1
    /\ installed = <<Err("BrokenPipe")>>
    /\ inner.data = <<1>>

\* C7: write_all of [1,2,3,4] through [Err(WouldBlock), Limited(2)] into an
\* empty sink: the first write call fails with WouldBlock and writes
\* nothing, the second writes [1,2], the third, with the sequence exhausted,
\* writes [3,4]; the task then is done and the sink holds [1,2,3,4].
C7_DocExample ==
    (installed = ExampleOps /\ data = ExampleData) =>
        /\ calls <= 3
        /\ tstate # "failed"
        /\ (tstate = "done") = (calls = 3)
        /\ calls = 0 => inner.data = <<>>
        /\ calls = 1 =>
              /\ inner.data = <<>>
              /\ pos = 0
              /\ last.call = "write" =>
                    /\ last.buf = <<1, 2, 3, 4>>
                    /\ ~last.ret.ok
                    /\ last.ret.kind = "WouldBlock"
                    /\ last.icalls = <<>>
        /\ calls = 2 =>
              /\ inner.data = <<1, 2>>
              /\ pos = 2
              /\ last.call = "write"
              /\ last.buf = <<1, 2, 3, 4>>
              /\ last.icalls = <<ICall("write", <<1, 2>>)>>
              /\ last.ret = Ok(2)
        /\ calls = 3 =>
              /\ inner.data = <<1, 2, 3, 4>>
              /\ pos = 4
              /\ last.call = "write" =>
                    /\ last.op = None
                    /\ last.buf = <<3, 4>>
                    /\ last.icalls = <<ICall("write", <<3, 4>>)>>
                    /\ last.ret = Ok(2)

C7_Witness ==
    /\ installed = ExampleOps
    /\ data = ExampleData
    /\ calls = 3
    /\ tstate = "done"
    /\ owner = "caller"
    /\ inner.data = <<1, 2, 3, 4>>

\* C8: a write or flush call governed by Err(WouldBlock) has requested a wake
\* of the current task when it returns, and returns the would-block error;
\* it makes no call on the inner stream.
C8_WouldBlockWakes ==
    (Intercepted(last) /\ last.op = Err("WouldBlock")) =>
        /\ last.wakes = 1
        /\ notified
        /\ ~last.ret.ok
        /\ last.ret.kind = "WouldBlock"
        /\ last.icalls = <<>>

C8_Witness ==
    /\ last.call = "flush"
    /\ last.op = Err("WouldBlock")
    /\ last.wakes = 1
    /\ notified
    /\ last.ret = IoError("WouldBlock", FlushMsg)

\* C9: a flush call consumes one op when one remains; governed by Err(kind)
\* it returns the fabricated error and does not call the inner flush;
\* governed by Limited(n), n = 0 included, by Unlimited or by exhaustion it
\* calls the inner flush once and returns its result.
C9_Flush ==
    [][last'.call = "flush" =>
          /\ Remaining(ops') = Drop(Remaining(ops), 1)
          /\ IF Governor.tag = "Err"
             THEN /\ inner' = inner
                  /\ last'.icalls = <<>>
                  /\ last'.ret = IoError(Governor.kind, FlushMsg)
             ELSE Forwarded(InnerFlush(inner), "flush", <<>>)]_vars

C9_Witness ==
    /\ last.call = "flush"
    /\ last.op = Limited(0)
    /\ last.icalls = <<ICall("flush", <<>>)>>
    /\ last.ret = Ok(0)
    /\ inner.data = <<1, 2>>
    /\ ~inner.dirty

\* C10: a shutdown call is forwarded to the inner stream's shutdown and
\* returns its result whatever the next op is, requests no wake, and leaves
\* the sequence as it was.
C10_ShutdownBypasses ==
    [][last'.call = "shutdown" =>
          /\ Forwarded(InnerShutdown(inner), "shutdown", <<>>)
          /\ last'.wakes = 0
          /\ ops' = ops
          /\ Governor' = Governor]_vars

C10_Witness ==
    /\ last.call = "shutdown"
    /\ Governor = Err("WouldBlock")
    /\ Remaining(ops) = <<Err("WouldBlock")>>
    /\ last.ret = Ok(0)
    /\ inner.shut
    /\ ~notified

\* C11: a read call is forwarded to the inner stream's read with the whole
\* buffer and returns its result whatever the next op is; it requests no
\* wake and leaves the sequence as it was, so the op that governs the next
\* write or flush is the same as before the read.
C11_ReadBypasses ==
    [][last'.call = "read" =>
          /\ Forwarded(InnerRead(inner, Len(last'.buf)), "read", last'.buf)
          /\ last'.wakes = 0
          /\ ops' = ops
          /\ Governor' = Governor]_vars

C11_Witness ==
    /\ last.call = "read"
    /\ calls = 1
    /\ Governor = Limited(0)
    /\ Remaining(ops) = <<Limited(0)>>
    /\ last.buf = Bytes(2)
    /\ last.ret = Ok(2)
    /\ inner.data = <<1>>

\* C12: when the inner stream itself fails a forwarded write (whole or
\* truncated) or a forwarded flush, the call returns that very error, kind
\* and message, and requests no wake, also when its kind is WouldBlock.
C12_InnerErrorUnmodified ==
    [][(Intercepted(last') /\ Governor.tag # "Err") =>
          LET slice == IF Governor.tag = "Limited"
                       THEN Prefix(last'.buf, Min(Governor.n, Len(last'.buf)))
                       ELSE last'.buf
              r == IF last'.call = "write" THEN InnerWrite(inner, slice)
                                           ELSE InnerFlush(inner)
          IN  ~r.res.ok =>
                 /\ last'.ret = r.res
                 /\ last'.ret.msg = InnerMsg
                 /\ last'.wakes = 0
                 /\ notified' = notified]_vars

C12_Witness ==
    /\ last.call = "write"
    /\ last.op = Limited(1)
    /\ last.buf = Bytes(2)
    /\ last.ret = IoError("WouldBlock", InnerMsg)
    /\ last.wakes = 0
    /\ ~notified

\* C13: a write governed by Limited(0), or by any Limited(n) with an empty
\* buffer, makes exactly one write call of zero bytes on the inner stream
\* and returns its result; the bytes the sink holds are unchanged.
C13_ZeroLengthWrite ==
    [][(/\ last'.call = "write"
        /\ Governor.tag = "Limited"
        /\ (Governor.n = 0 \/ last'.buf = <<>>)) =>
          /\ last'.icalls = <<ICall("write", <<>>)>>
          /\ last'.ret = InnerWrite(inner, <<>>).res
          /\ inner'.data = inner.data]_vars

C13_Witness ==
    /\ last.call = "write"
    /\ last.op = Limited(0)
    /\ last.buf = Bytes(2)
    /\ last.icalls = <<ICall("write", <<>>)>>
    /\ last.ret = Ok(0)
    /\ inner.data = <<1>>

\* C14: a fabricated error carries the message of the operation that
\* produced it, write's for a write and flush's for a flush, whatever its
\* kind and whatever was called before; the two messages differ, and neither
\* is carried by an error the inner stream raised.
C14_FixedMessages ==
    /\ WriteMsg # FlushMsg
    /\ Intercepted(last) =>
          /\ last.op.tag = "Err" =>
                /\ ~last.ret.ok
                /\ last.ret.msg = IF last.call = "write" THEN WriteMsg ELSE FlushMsg
          /\ (last.op.tag # "Err" /\ ~last.ret.ok) =>
                last.ret.msg \notin {WriteMsg, FlushMsg}

C14_Witness ==
    /\ last.call = "flush"
    /\ calls = 2
    /\ installed = <<Err("WouldBlock"), Err("BrokenPipe")>>
    /\ last.op = Err("BrokenPipe")
    /\ last.ret = IoError("BrokenPipe", FlushMsg)

\* C15: get_mut and into_inner make no call on the inner stream, leave it
\* and the sequence as they were and request no wake: into_inner hands the
\* caller the stream with the bytes it held, and the op that governs the
\* next write or flush is the same before and after a get_mut.
C15_AccessorsAreInert ==
    [][last'.call \in {"get_mut", "into_inner"} =>
          /\ inner' = inner
          /\ ops' = ops
          /\ Governor' = Governor
          /\ last'.icalls = <<>>
          /\ last'.wakes = 0
          /\ owner' = IF last'.call = "into_inner" THEN "caller" ELSE owner]_vars

C15_Witness ==
    /\ last.call = "into_inner"
    /\ owner = "caller"
    /\ calls = 2
    /\ inner.data = <<1, 2>>
    /\ Remaining(ops) = <<>>

\* C16: in the write_all run, whatever the op sequence, the sink holds
\* exactly the first pos bytes of the data, pos being the sum of the counts
\* the write calls returned: no byte is lost, duplicated or reordered.
C16_ByteConservation ==
    /\ pos <= Len(data)
    /\ inner.data = Prefix(data, pos)
    /\ (last.call = "write" /\ ~last.ret.ok) => last.icalls = <<>>

C16_Witness ==
    /\ data = Bytes(3)
    /\ installed = <<Limited(1), Err("WouldBlock")>>
    /\ calls = 3
    /\ pos = 3
    /\ inner.data = <<1, 2, 3>>

\* The sequences C17 is about: Err(WouldBlock), Unlimited and Limited(n)
\* with n >= 1 only.
Benign(items) ==
    \A i \in 1..Len(items) :
        \/ items[i] = Unlimited
        \/ items[i] = Err("WouldBlock")
        \/ (items[i].tag = "Limited" /\ items[i].n >= 1)

\* C17: under such a sequence a write_all task that is polled again whenever
\* it was unparked eventually has written all of its data to the sink.
C17_Progress ==
    Benign(installed) ~> (tstate = "done" /\ inner.data = data)

C17_Witness ==
    /\ installed = <<Err("WouldBlock"), Err("WouldBlock")>>
    /\ data = Bytes(4)
    /\ tstate = "done"
    /\ inner.data = data
    /\ calls = 3

\* C18: a wake of the task is requested only by a write or flush call that
\* Err(WouldBlock) governs; every call requests at most one wake and makes
\* at most one call on the inner stream.
C18_WakeOnlyOnWouldBlock ==
    [][/\ last'.wakes <= 1
       /\ Len(last'.icalls) <= 1
       /\ (last'.wakes > 0 \/ (notified' /\ ~notified)) =>
             /\ Intercepted(last')
             /\ Governor = Err("WouldBlock")]_vars

C18_Witness ==
    /\ last.call = "flush"
    /\ last.op = Err("BrokenPipe")
    /\ calls = 1
    /\ last.wakes = 0
    /\ ~notified

====
